---- MODULE Spec2Model ----
(***************************************************************************)
(* MeshDrawer and SceneNode of CS405-Project3.                             *)
(*                                                                         *)
(* src/meshDrawer.js holds two MeshDrawer classes (lines 5-115 and         *)
(* 121-240) and one SceneNode class (lines 251-287); src/unnamed/part_000  *)
(* holds a second SceneNode class.  meshImpl and nodeImpl say which of     *)
(* them a run uses.                                                        *)
(*                                                                         *)
(* A 4x4 matrix is the sequence of its 16 entries, column-major, as the    *)
(* arrays handed to uniformMatrix4fv are.  An array of floats handed to    *)
(* setMesh is represented by its length: no code path reads an element.    *)
(***************************************************************************)
EXTENDS Integers, Sequences, FiniteSets, TLC

VARIABLES
    nodeImpl,   \* the SceneNode class in use: "meshDrawer.js" or "part_000"
    meshImpl,   \* the MeshDrawer class in use: "first" or "second"
    nodes,      \* the SceneNode objects, in order of construction
    pc,         \* "idle", "drawing", "done" or "overflow"
    cur,        \* the outermost SceneNode.draw call: its receiver and arguments
    stack,      \* the frames of the SceneNode.draw calls in progress
    trace,      \* the calls made by SceneNode.draw since the outermost call
    drawers,    \* the MeshDrawer objects
    gl,         \* the state of the WebGL context
    op,         \* the MeshDrawer method that ran last in this step
    issued      \* the WebGL calls that method issued, in order

vars ==
    <<nodeImpl, meshImpl, nodes, pc, cur, stack, trace, drawers, gl, op, issued>>

(***************************************************************************)
(* Bounds.                                                                 *)
(***************************************************************************)
\* constructor and addChild calls of a run
MaxOps == 4
\* MeshDrawer objects
MaxDrawers == 2
\* vertices of a mesh handed to setMesh
MaxVerts == 3

\* depth of nested SceneNode.draw calls the engine's stack allows; a tree of
\* MaxOps nodes never needs more than MaxOps
MaxStack == MaxOps + 1

Drawers == 1..MaxDrawers

(***************************************************************************)
(* Matrices.  The code hands its matrices to MatrixMult and to             *)
(* uniformMatrix4fv and never reads an entry, so the order of a matrix     *)
(* plays no part in it: the model's matrices are 2x2, column-major         *)
(* <<m11, m21, m12, m22>>, with integer entries.                           *)
(***************************************************************************)
IdentityMatrix == <<1, 0, 0, 1>>

\* MatrixMult(A, B) of the project's utilities: A * B, column-major
MatrixMult(A, B) ==
    <<A[1] * B[1] + A[3] * B[2], A[2] * B[1] + A[4] * B[2],
      A[1] * B[3] + A[3] * B[4], A[2] * B[3] + A[4] * B[4]>>

\* trs.getTransformationMatrix() of the TRS object t.  The objects have
\* matrices that differ from the identity and do not commute with each other.
getTransformationMatrix(t) == <<1, 1, t, t + 1>>

\* the arguments of an outermost draw call: <<mvp, modelView, normalMatrix, modelMatrix>>
IdentityInputs == <<IdentityMatrix, IdentityMatrix, IdentityMatrix, IdentityMatrix>>

ViewInputs == <<<<2, 0, 3, 1>>, <<1, 0, 3, 1>>, <<0, 1, -1, 0>>, <<1, 2, 0, 1>>>>

DrawInputs == {IdentityInputs, ViewInputs}

(***************************************************************************)
(* The WebGL context.                                                      *)
(***************************************************************************)
\* handles: program d, texture d and buffers 3d-2, 3d-1, 3d belong to drawer d;
\* 0 is null
Buffers == 1..(3 * MaxDrawers)

\* the index of a vertex attribute: every program is linked from the same
\* shader pair, so a name has the same index in each
AttribIndex(name) ==
    CASE name = "position" -> 0
      [] name = "normal" -> 1
      [] name = "texCoord" -> 2

InitGL ==
    [program |-> 0,
     activeTexture |-> 0,
     texture2D |-> [u \in {0} |-> 0],
     arrayBuffer |-> 0,
     attribs |-> [a \in 0..2 |-> [buffer |-> 0, size |-> 4, enabled |-> FALSE]],
     bufferData |-> [b \in Buffers |-> -1],
     sampler |-> [p \in Drawers |-> 0]]

\* the effect of one WebGL call on the context.  bufferData[b] is the length of
\* the data of buffer b, -1 before any; sampler[p] is the value of the uniform
\* tex of program p, 0 when the program is linked.  A uniform call whose
\* location is not of the current program is rejected (INVALID_OPERATION).  The
\* values of the other uniforms are never read back: they are kept in the log
\* of the calls only.
GLExec(g, c) ==
    CASE c.f = "useProgram" -> [g EXCEPT !.program = c.program]
      [] c.f = "activeTexture" -> [g EXCEPT !.activeTexture = c.unit]
      [] c.f = "bindTexture" -> [g EXCEPT !.texture2D[g.activeTexture] = c.texture]
      [] c.f = "bindBuffer" -> [g EXCEPT !.arrayBuffer = c.buffer]
      [] c.f = "bufferData" -> [g EXCEPT !.bufferData[g.arrayBuffer] = c.size]
      [] c.f = "vertexAttribPointer" ->
            [g EXCEPT !.attribs[c.index].buffer = g.arrayBuffer,
                      !.attribs[c.index].size = c.size]
      [] c.f = "enableVertexAttribArray" -> [g EXCEPT !.attribs[c.index].enabled = TRUE]
      [] c.f = "uniform1i" /\ c.location.name = "tex" ->
            IF c.location.program = g.program
            THEN [g EXCEPT !.sampler[c.location.program] = c.value]
            ELSE g
      [] OTHER -> g

RECURSIVE GLRun(_, _, _)
\* the calls cs issued in order from context g: the context afterwards and the
\* log of the calls, each with the program that was current when it was issued.
\* (The context after a call is bound as an element of a one-element set, so
\* that TLC computes it once, also where it evaluates ENABLED.)
GLRun(g, cs, log) ==
    IF cs = <<>> THEN [gl |-> g, log |-> log]
    ELSE CHOOSE r \in {GLRun(h, rest, l) :
                          h \in {GLExec(g, Head(cs))},
                          rest \in {Tail(cs)},
                          l \in {Append(log, [call |-> Head(cs), program |-> g.program])}} :
             TRUE

(***************************************************************************)
(* MeshDrawer.                                                             *)
(***************************************************************************)
MeshImpls == {"first", "second"}

\* a JavaScript boolean handed to uniform1i
ToGLint(b) == IF b THEN 1 ELSE 0

\* vertPos.length / 3 in JavaScript numbers: a fraction in lowest terms
\* (the denominator is 1 or 3)
TriangleCount(len) ==
    IF len % 3 = 0 THEN [num |-> len \div 3, den |-> 1] ELSE [num |-> len, den |-> 3]

NewMeshDrawer(d, isLightSource) ==
    [prog |-> d,
     attribLocations |-> [position |-> AttribIndex("position"),
                          normal |-> AttribIndex("normal"),
                          texCoord |-> AttribIndex("texCoord")],
     uniformLocations |-> [mvp |-> [program |-> d, name |-> "mvp"],
                           mv |-> [program |-> d, name |-> "mv"],
                           normalMV |-> [program |-> d, name |-> "normalMV"],
                           modelMatrix |-> [program |-> d, name |-> "modelMatrix"],
                           isLightSource |-> [program |-> d, name |-> "isLightSource"],
                           tex |-> [program |-> d, name |-> "tex"]],
     buffers |-> [position |-> 3 * d - 2, normal |-> 3 * d - 1, texCoord |-> 3 * d],
     texture |-> d,
     numTriangles |-> [num |-> 0, den |-> 1],
     isLightSource |-> isLightSource]

bindAndBufferData(buffer, len) ==
    <<[f |-> "bindBuffer", buffer |-> buffer],
      [f |-> "bufferData", size |-> len]>>

enableVertexAttrib(location, buffer, size) ==
    <<[f |-> "bindBuffer", buffer |-> buffer],
      [f |-> "vertexAttribPointer", index |-> location, size |-> size],
      [f |-> "enableVertexAttribArray", index |-> location]>>

\* the WebGL calls of setMesh(vertPos, texCoords, normals)
SetMeshCalls(md, vertPos, texCoords, normals) ==
    bindAndBufferData(md.buffers.position, vertPos)
      \o bindAndBufferData(md.buffers.normal, normals)
      \o bindAndBufferData(md.buffers.texCoord, texCoords)

\* the WebGL calls of draw(matrixMVP, matrixMV, matrixNormal, modelMatrix)
MeshDrawCalls(md, matrixMVP, matrixMV, matrixNormal, modelMatrix) ==
    <<[f |-> "useProgram", program |-> md.prog],
      [f |-> "bindTexture", texture |-> md.texture],
      [f |-> "uniformMatrix4fv", location |-> md.uniformLocations.mvp, value |-> matrixMVP],
      [f |-> "uniformMatrix4fv", location |-> md.uniformLocations.mv, value |-> matrixMV],
      [f |-> "uniformMatrix4fv", location |-> md.uniformLocations.normalMV,
       value |-> matrixNormal],
      [f |-> "uniformMatrix4fv", location |-> md.uniformLocations.modelMatrix,
       value |-> modelMatrix],
      [f |-> "uniform1i", location |-> md.uniformLocations.isLightSource,
       value |-> ToGLint(md.isLightSource)]>>
      \o enableVertexAttrib(md.attribLocations.position, md.buffers.position, 3)
      \o enableVertexAttrib(md.attribLocations.normal, md.buffers.normal, 3)
      \o enableVertexAttrib(md.attribLocations.texCoord, md.buffers.texCoord, 2)
      \o <<[f |-> "drawArrays", first |-> 0, count |-> md.numTriangles]>>

\* isPowerOf2(value) of the project's utilities
RECURSIVE isPowerOf2(_)
isPowerOf2(value) ==
    \/ value = 1
    \/ value > 1 /\ value % 2 = 0 /\ isPowerOf2(value \div 2)

UseMipmapsEither(img) == isPowerOf2(img.width) \/ isPowerOf2(img.height)

\* the condition of setTexture's if
UseMipmaps(img) == isPowerOf2(img.width) /\ isPowerOf2(img.height)

\* the WebGL calls of setTexture(img); only the first class makes its program
\* current before it writes the sampler uniform
SetTextureCalls(impl, md, img) ==
    <<[f |-> "bindTexture", texture |-> md.texture],
      [f |-> "texImage2D", width |-> img.width, height |-> img.height]>>
      \o (IF UseMipmaps(img)
          THEN <<[f |-> "generateMipmap"]>>
          ELSE <<[f |-> "texParameteri", pname |-> "TEXTURE_MIN_FILTER", param |-> "LINEAR"],
                 [f |-> "texParameteri", pname |-> "TEXTURE_WRAP_S",
                  param |-> "CLAMP_TO_EDGE"],
                 [f |-> "texParameteri", pname |-> "TEXTURE_WRAP_T",
                  param |-> "CLAMP_TO_EDGE"]>>)
      \o (IF impl = "first" THEN <<[f |-> "useProgram", program |-> md.prog]>> ELSE <<>>)
      \o <<[f |-> "activeTexture", unit |-> 0],
           [f |-> "bindTexture", texture |-> md.texture],
           [f |-> "uniform1i", location |-> md.uniformLocations.tex, value |-> 0]>>

NoOp == [name |-> "none", drawer |-> 0]

\* widths and heights of the images handed to setTexture
Dims == {100, 256}

Images == [width : Dims, height : Dims]

\* positions arrays handed to setMesh: three floats a vertex
PosLens == {3 * v : v \in 0..MaxVerts}

\* the texCoords array that goes with a positions array: two floats a vertex
TexLen(vertPos) == 2 * (vertPos \div 3)

\* a MeshDrawer method ran: its calls reach the context in order
Ran(calls, what) ==
    \E r \in {GLRun(gl, calls, <<>>)} :
        /\ gl' = r.gl
        /\ issued' = r.log
        /\ op' = what

NoMethod ==
    /\ UNCHANGED gl
    /\ issued' = <<>>
    /\ op' = NoOp

setMeshNumTrianglesFromTexCoords(d, vertPos, texCoords, normals) ==
    [drawers EXCEPT ![d].numTriangles = TriangleCount(texCoords)]

\* the MeshDrawer objects after drawers[d].setMesh(vertPos, texCoords, normals)
setMeshNumTriangles(d, vertPos, texCoords, normals) ==
    [drawers EXCEPT ![d].numTriangles = TriangleCount(vertPos)]

(***************************************************************************)
(* SceneNode.                                                              *)
(***************************************************************************)
NodeImpls == {"meshDrawer.js", "part_000"}

NewSceneNode(meshDrawer, trs, parent) ==
    [meshDrawer |-> meshDrawer, trs |-> trs, parent |-> parent, children |-> <<>>]

\* ns[this].addChild(node)
addChild(ns, this, node) == [ns EXCEPT ![this].children = Append(@, node)]

ConstructorNoRegister(ns, meshDrawer, trs, parent) ==
    Append(ns, NewSceneNode(meshDrawer, trs, parent))

\* new SceneNode(meshDrawer, trs, parent): the new object is the last of the result
Constructor(ns, meshDrawer, trs, parent) ==
    LET made == Append(ns, NewSceneNode(meshDrawer, trs, parent))
    IN  IF parent # 0 THEN addChild(made, parent, Len(made)) ELSE made

RECURSIVE SumLen(_, _)
SumLen(ns, k) == IF k = 0 THEN 0 ELSE Len(ns[k].children) + SumLen(ns, k - 1)

\* constructor and addChild calls made so far: every constructor with a parent
\* and every addChild call adds one entry to one children list
CallsMade ==
    LET registered == Cardinality({n \in 1..Len(nodes) : nodes[n].parent # 0})
    IN  Len(nodes) + (SumLen(nodes, Len(nodes)) - registered)

\* the MeshDrawer handed to the constructor of the n-th node: the drawers take
\* turns; a node made without a parent (a group of the scene) may have none
DrawerFor(n) == ((n - 1) % MaxDrawers) + 1

MeshDrawerArgs(n, parent) == {DrawerFor(n)} \cup (IF parent = 0 THEN {0} ELSE {})

TransformedSwapped(L, mvp, modelView, normalMatrix, modelMatrix) ==
    [mvp |-> MatrixMult(mvp, L),
     normals |-> MatrixMult(modelView, L),
     modelView |-> MatrixMult(normalMatrix, L),
     model |-> MatrixMult(modelMatrix, L)]

TransformedLocalLeft(L, mvp, modelView, normalMatrix, modelMatrix) ==
    [mvp |-> MatrixMult(L, mvp),
     normals |-> MatrixMult(L, normalMatrix),
     modelView |-> MatrixMult(L, modelView),
     model |-> MatrixMult(L, modelMatrix)]

\* the four products at the head of SceneNode.draw
Transformed(L, mvp, modelView, normalMatrix, modelMatrix) ==
    [mvp |-> MatrixMult(mvp, L),
     normals |-> MatrixMult(normalMatrix, L),
     modelView |-> MatrixMult(modelView, L),
     model |-> MatrixMult(modelMatrix, L)]

\* the arguments SceneNode.draw hands to child.draw and to meshDrawer.draw
DrawArgs(t) == <<t.mvp, t.modelView, t.normals, t.model>>

\* the frame of this.draw(args[1], args[2], args[3], args[4]), its products computed
NewFrame(this, args) ==
    [node |-> this,
     args |-> args,
     t |-> Transformed(getTransformationMatrix(nodes[this].trs),
                       args[1], args[2], args[3], args[4]),
     i |-> 1]

MeshFirstAlways(impl) == TRUE

\* whether draw calls meshDrawer.draw before it draws the children
MeshFirst(impl) == impl = "part_000"

ChildAtReversed(children, i) == children[Len(children) + 1 - i]

\* the i-th element forEach / for-of visits
ChildAt(children, i) == children[i]

NextIndexSkipping(i) == i + 2

\* the index of the element forEach / for-of visits next
NextIndex(i) == i + 1

Path(st) == [k \in 1..Len(st) |-> st[k].node]

\* this.meshDrawer?.draw(...) of the node of frame fr, as the call recorded in trace
MeshEvents(fr, path) ==
    IF nodes[fr.node].meshDrawer = 0 THEN <<>>
    ELSE <<[kind |-> "mesh", caller |-> fr.node, callee |-> nodes[fr.node].meshDrawer,
            args |-> fr.args, passed |-> DrawArgs(fr.t), path |-> path]>>

\* this.meshDrawer?.draw(...) of the node of frame fr, as it acts on the context
DoMesh(fr) ==
    LET md == nodes[fr.node].meshDrawer
        a == DrawArgs(fr.t)
    IN  IF md = 0 THEN NoMethod
        ELSE Ran(MeshDrawCalls(drawers[md], a[1], a[2], a[3], a[4]),
                 [name |-> "draw", drawer |-> md, arg |-> a])

NoCall == [root |-> 0, args |-> <<>>]

MeshDraws(tr) == SelectSeq(tr, LAMBDA e : e.kind = "mesh")

(***************************************************************************)
(* Actions.                                                                *)
(***************************************************************************)
Init ==
    /\ nodeImpl \in NodeImpls
    /\ meshImpl \in MeshImpls
    /\ nodes = <<>>
    /\ pc = "idle"
    /\ cur = NoCall
    /\ stack = <<>>
    /\ trace = <<>>
    /\ drawers = [d \in Drawers |-> NewMeshDrawer(d, d = 1)]
    /\ gl = InitGL
    /\ op = NoOp
    /\ issued = <<>>

\* the tree changed: nothing of an earlier draw call is kept
Forget ==
    /\ pc' = "idle"
    /\ cur' = NoCall
    /\ stack' = <<>>
    /\ trace' = <<>>
    /\ NoMethod

\* new SceneNode(meshDrawer, trs, parent), with a TRS object of its own
Construct(meshDrawer, parent) ==
    /\ pc # "drawing"
    /\ CallsMade < MaxOps
    /\ nodes' = Constructor(nodes, meshDrawer, Len(nodes) + 1, parent)
    /\ Forget
    /\ UNCHANGED <<nodeImpl, meshImpl, drawers>>

\* nodes[this].addChild(node)
AddChild(this, node) ==
    /\ pc # "drawing"
    /\ CallsMade < MaxOps
    /\ nodes' = addChild(nodes, this, node)
    /\ Forget
    /\ UNCHANGED <<nodeImpl, meshImpl, drawers>>

\* nodes[root].draw(args...) called from outside, on a node made without a
\* parent: the frame is set up and, in part_000, the node's mesh is drawn
DrawStart(root, args) ==
    /\ pc # "drawing"
    /\ nodes[root].parent = 0
    /\ LET fr == NewFrame(root, args)
       IN  /\ stack' = <<fr>>
           /\ IF MeshFirst(nodeImpl)
              THEN trace' = MeshEvents(fr, <<root>>) /\ DoMesh(fr)
              ELSE trace' = <<>> /\ NoMethod
    /\ pc' = "drawing"
    /\ cur' = [root |-> root, args |-> args]
    /\ UNCHANGED <<nodeImpl, meshImpl, nodes, drawers>>

\* the innermost draw call reaches its next child and calls child.draw
DrawChild ==
    /\ pc = "drawing"
    /\ LET top == stack[Len(stack)]
           ch == nodes[top.node].children
       IN  /\ top.i <= Len(ch)
           /\ Len(stack) < MaxStack
           /\ LET child == ChildAt(ch, top.i)
                  fr == NewFrame(child, DrawArgs(top.t))
                  st == Append([stack EXCEPT ![Len(stack)].i = NextIndex(top.i)], fr)
                  ev == [kind |-> "child", caller |-> top.node, callee |-> child,
                         args |-> top.args, passed |-> DrawArgs(top.t),
                         path |-> Path(stack)]
              IN  /\ stack' = st
                  /\ IF MeshFirst(nodeImpl)
                     THEN trace' = trace \o <<ev>> \o MeshEvents(fr, Path(st)) /\ DoMesh(fr)
                     ELSE trace' = Append(trace, ev) /\ NoMethod
    /\ UNCHANGED <<nodeImpl, meshImpl, nodes, pc, cur, drawers>>

\* the innermost draw call is past its last child: in meshDrawer.js it draws
\* the node's mesh; it returns
DrawReturn ==
    /\ pc = "drawing"
    /\ LET top == stack[Len(stack)]
       IN  /\ top.i > Len(nodes[top.node].children)
           /\ stack' = SubSeq(stack, 1, Len(stack) - 1)
           /\ IF MeshFirst(nodeImpl)
              THEN trace' = trace /\ NoMethod
              ELSE trace' = trace \o MeshEvents(top, Path(stack)) /\ DoMesh(top)
    /\ pc' = IF Len(stack) = 1 THEN "done" ELSE "drawing"
    /\ UNCHANGED <<nodeImpl, meshImpl, nodes, cur, drawers>>

\* the next child.draw call exceeds the engine's stack: a RangeError unwinds
\* every draw call
DrawOverflow ==
    /\ pc = "drawing"
    /\ LET top == stack[Len(stack)]
       IN  top.i <= Len(nodes[top.node].children)
    /\ Len(stack) >= MaxStack
    /\ pc' = "overflow"
    /\ stack' = <<>>
    /\ NoMethod
    /\ UNCHANGED <<nodeImpl, meshImpl, nodes, cur, trace, drawers>>

SceneUnchanged == UNCHANGED <<nodeImpl, meshImpl, nodes, pc, cur, stack, trace>>

\* drawers[d].setMesh(vertPos, texCoords, normals)
SetMesh(d, vertPos, texCoords, normals) ==
    /\ Ran(SetMeshCalls(drawers[d], vertPos, texCoords, normals),
           [name |-> "setMesh", drawer |-> d, arg |-> vertPos])
    /\ drawers' = setMeshNumTriangles(d, vertPos, texCoords, normals)
    /\ SceneUnchanged

\* drawers[d].draw(args...) called directly
MeshDraw(d, args) ==
    /\ Ran(MeshDrawCalls(drawers[d], args[1], args[2], args[3], args[4]),
           [name |-> "draw", drawer |-> d, arg |-> args])
    /\ UNCHANGED drawers
    /\ SceneUnchanged

\* drawers[d].setTexture(img)
SetTexture(d, img) ==
    /\ Ran(SetTextureCalls(meshImpl, drawers[d], img),
           [name |-> "setTexture", drawer |-> d, arg |-> img])
    /\ UNCHANGED drawers
    /\ SceneUnchanged

SceneNext ==
    \/ \E parent \in 0..Len(nodes) :
         \E meshDrawer \in MeshDrawerArgs(Len(nodes) + 1, parent) :
           Construct(meshDrawer, parent)
    \/ \E this \in 1..Len(nodes) : \E node \in 1..Len(nodes) : AddChild(this, node)
    \/ \E root \in 1..Len(nodes) : \E args \in DrawInputs : DrawStart(root, args)
    \/ DrawChild
    \/ DrawReturn
    \/ DrawOverflow

MeshNext ==
    \/ \E d \in Drawers : \E vertPos \in PosLens :
         SetMesh(d, vertPos, TexLen(vertPos), vertPos)
    \/ \E d \in Drawers : \E args \in DrawInputs : MeshDraw(d, args)
    \/ \E d \in Drawers : \E img \in Images : SetTexture(d, img)

\* building and drawing scene graphs; the drawers stay as constructed, and
\* MeshDrawer.draw, the one method SceneNode calls, is the same in both classes
SceneInit == Init /\ meshImpl = "first"

SceneSpec == SceneInit /\ [][SceneNext]_vars

\* a draw call in progress runs on: nothing else runs in the page's one thread
FairSceneSpec == SceneSpec /\ WF_vars(DrawChild \/ DrawReturn \/ DrawOverflow)

\* the methods of the MeshDrawer objects called in any order
MeshInit == Init /\ nodeImpl = "meshDrawer.js"

MeshSpec == MeshInit /\ [][MeshNext]_vars

(***************************************************************************)
(* What the claims speak of.                                               *)
(***************************************************************************)
Channels == 1..4

LocalOf(n) == getTransformationMatrix(nodes[n].trs)

Kids(n) == {nodes[n].children[i] : i \in 1..Len(nodes[n].children)}

RECURSIVE Closure(_, _)
Closure(S, k) ==
    IF k = 0 THEN S ELSE Closure(S \cup UNION {Kids(n) : n \in S}, k - 1)

\* the nodes a draw call on r reaches, r among them
Subtree(r) == Closure({r}, Len(nodes))

\* the entries of children lists, of nodes of R, that hold c
EntriesOf(R, c) ==
    {e \in R \X (1..MaxOps) :
        e[2] <= Len(nodes[e[1]].children) /\ nodes[e[1]].children[e[2]] = c}

\* the nodes reached from r form a tree with root r
TreeAt(r) ==
    LET R == Subtree(r)
    IN  \A c \in R : Cardinality(EntriesOf(R, c)) = (IF c = r THEN 0 ELSE 1)

AllMesh(r) == \A n \in Subtree(r) : nodes[n].meshDrawer # 0

MeshCalls == {k \in 1..Len(trace) : trace[k].kind = "mesh"}

ChildCalls == {k \in 1..Len(trace) : trace[k].kind = "child"}

IsPrefix(p, q) == Len(p) <= Len(q) /\ SubSeq(q, 1, Len(p)) = p

ProperPrefix(p, q) == Len(p) < Len(q) /\ IsPrefix(p, q)

\* a tree is being drawn, or has been drawn to the end
DrawingTree == pc \in {"drawing", "done"} /\ TreeAt(cur.root)

DrawnTree == pc = "done" /\ TreeAt(cur.root)

\* C1: every call SceneNode.draw makes, to a child's draw or to its mesh's
\* draw, passes MatrixMult(M, L) in each of the four positions, M being the
\* argument the node received in that position and L its local matrix; the
\* callee receives them in the same positions.
C1_ComposedPerChannel ==
    /\ \A k \in 1..Len(trace) : \A c \in Channels :
         trace[k].passed[c] = MatrixMult(trace[k].args[c], LocalOf(trace[k].caller))
    /\ \A j \in 2..Len(stack) : \A c \in Channels :
         stack[j].args[c] = MatrixMult(stack[j - 1].args[c], LocalOf(stack[j - 1].node))
    /\ op.name = "draw" /\ pc # "idle" /\ trace # <<>> =>
         \E k \in MeshCalls : op.arg = trace[k].passed /\ op.drawer = trace[k].callee

C1_Witness ==
    /\ pc = "done"
    /\ cur.args = ViewInputs
    /\ \E k \in ChildCalls : \E m \in MeshCalls :
         trace[m].caller = trace[k].callee /\ Len(trace[m].path) = 3

RECURSIVE PathProduct(_)
\* L0 * L1 * ... * Ld of the nodes of a path, multiplied from the root on
PathProduct(path) ==
    IF Len(path) = 1 THEN LocalOf(path[1])
    ELSE MatrixMult(PathProduct(SubSeq(path, 1, Len(path) - 1)), LocalOf(path[Len(path)]))

\* C2: drawn from a root with identity matrices, the mesh of a node at depth
\* d receives, in each of the four positions, the product of the d+1 local
\* matrices on the path from the root to the node, in that order.
C2_PathProductFromRoot ==
    cur.args = IdentityInputs =>
        \A k \in MeshCalls : \A c \in Channels :
            trace[k].passed[c] = PathProduct(trace[k].path)

C2_Witness ==
    /\ pc = "done"
    /\ cur.args = IdentityInputs
    /\ TreeAt(cur.root)
    /\ \E k \in MeshCalls : Len(trace[k].path) = 3

MeshDrawsOf(n) == {k \in MeshCalls : trace[k].caller = n}

DrawCallsOn(n) == {k \in ChildCalls : trace[k].callee = n}

EachOnce ==
    DrawnTree /\ AllMesh(cur.root) =>
        /\ \A n \in Subtree(cur.root) : Cardinality(MeshDrawsOf(n)) = 1
        /\ \A n \in Subtree(cur.root) \ {cur.root} : Cardinality(DrawCallsOn(n)) = 1
        /\ Cardinality(DrawCallsOn(cur.root)) = 0

\* C3: one draw call on the root of a tree with a mesh at every node draws
\* each node's mesh once and calls draw on each child once, and it comes to
\* its end.
C3_EachNodeOnceAndFinishes ==
    /\ []EachOnce
    /\ (pc = "drawing" /\ TreeAt(cur.root) /\ AllMesh(cur.root)) ~> (pc = "done")

C3_Witness ==
    /\ DrawnTree
    /\ AllMesh(cur.root)
    /\ Cardinality(Subtree(cur.root)) = 4
    /\ \E k \in MeshCalls : Len(trace[k].path) = 3

Occurrences(seq, x) == Cardinality({i \in 1..Len(seq) : seq[i] = x})

\* C4: a node whose parent is P is in P.children exactly once.
C4_InParentsChildrenOnce ==
    \A n \in 1..Len(nodes) :
        nodes[n].parent # 0 => Occurrences(nodes[nodes[n].parent].children, n) = 1

\* C5: new SceneNode(m, t, P) and new SceneNode(m, t) followed by
\* P.addChild(node) leave every children list the same, P's among them.
C5_ConstructorAsAddChild ==
    \A parent \in 1..Len(nodes) : \A meshDrawer \in {0} \cup Drawers :
        LET id == Len(nodes) + 1
            withParent == Constructor(nodes, meshDrawer, id, parent)
            thenAdded == addChild(Constructor(nodes, meshDrawer, id, 0), parent, id)
        IN  /\ Len(withParent) = id
            /\ Len(thenAdded) = id
            /\ \A p \in 1..id : withParent[p].children = thenAdded[p].children
            /\ withParent[parent].children = Append(nodes[parent].children, id)

C5_Witness ==
    \E p \in 1..Len(nodes) :
        /\ Len(nodes[p].children) = 2
        /\ nodes[nodes[p].children[1]].parent = 0
        /\ nodes[nodes[p].children[2]].parent = p
        /\ nodes[p].children[1] # nodes[p].children[2]

\* in the drawing of a tree, where a path names one call: a mesh draw of a call
\* comes after every mesh draw of the calls nested in it
DescendantsFirst ==
    DrawingTree =>
        \A i \in MeshCalls : \A j \in MeshCalls :
            ProperPrefix(trace[i].path, trace[j].path) => j < i

\* in the drawing of a tree: a mesh draw of a call comes before every mesh draw
\* of the calls nested in it
AncestorsFirst ==
    DrawingTree =>
        \A i \in MeshCalls : \A j \in MeshCalls :
            ProperPrefix(trace[i].path, trace[j].path) => i < j

\* C8, as stated: in every SceneNode class the children are drawn before the
\* node's own mesh.
C8_ChildrenBeforeOwnMesh == DescendantsFirst

\* C8, amended: the SceneNode of meshDrawer.js draws the children before the
\* node's own mesh, the SceneNode of part_000 draws the node's own mesh
\* before the children.
C8_OrderPerClass ==
    /\ nodeImpl = "meshDrawer.js" => DescendantsFirst
    /\ nodeImpl = "part_000" => AncestorsFirst

C8_Witness ==
    /\ DrawnTree
    /\ nodeImpl = "part_000"
    /\ \E i \in MeshCalls : \E j \in MeshCalls :
         i < j /\ ProperPrefix(trace[i].path, trace[j].path)

\* the children n.draw has called draw on so far, in the order of the calls
CalledBy(n) ==
    LET es == SelectSeq(trace, LAMBDA e : e.kind = "child" /\ e.caller = n)
    IN  [k \in 1..Len(es) |-> es[k].callee]

RECURSIVE ExpectedDraws(_, _)
RECURSIVE ExpectedOfChildren(_, _, _)
\* the nodes whose meshes a draw call on n draws, in order, read off the tree
ExpectedDraws(n, meshFirst) ==
    LET own == IF nodes[n].meshDrawer = 0 THEN <<>> ELSE <<n>>
        below == ExpectedOfChildren(nodes[n].children, 1, meshFirst)
    IN  IF meshFirst THEN own \o below ELSE below \o own

ExpectedOfChildren(children, i, meshFirst) ==
    IF i > Len(children) THEN <<>>
    ELSE ExpectedDraws(children[i], meshFirst)
           \o ExpectedOfChildren(children, i + 1, meshFirst)

DrawnNodes ==
    LET ms == MeshDraws(trace) IN [k \in 1..Len(ms) |-> ms[k].caller]

\* C9: draw visits the children of a node in the order of its children list,
\* which is the order they were added in; everything drawn below one child
\* comes before the call on the next child; and the mesh draws of a drawn
\* tree are a function of the tree, the same at every draw.
C9_ChildrenInInsertionOrder ==
    /\ DrawingTree =>
         \A n \in Subtree(cur.root) : IsPrefix(CalledBy(n), nodes[n].children)
    /\ DrawnTree =>
         \A n \in Subtree(cur.root) : CalledBy(n) = nodes[n].children
    /\ DrawingTree =>
         \A i \in ChildCalls : \A j \in ChildCalls :
            i < j /\ trace[i].caller = trace[j].caller =>
               \A k \in 1..Len(trace) :
                  IsPrefix(Append(trace[i].path, trace[i].callee), trace[k].path) => k < j
    /\ DrawnTree => DrawnNodes = ExpectedDraws(cur.root, nodeImpl = "part_000")

C9_Witness ==
    /\ DrawnTree
    /\ AllMesh(cur.root)
    /\ \E n \in Subtree(cur.root) :
         /\ Len(nodes[n].children) = 2
         /\ nodes[nodes[n].children[1]].children # <<>>

\* the WebGL calls of the method that ran last, without their notes
Calls == [k \in 1..Len(issued) |-> issued[k].call]

CallsTo(f) == {k \in 1..Len(issued) : Calls[k].f = f}

\* the length of the positions array of the latest setMesh of drawer d, -1 if none
LatestPositions(d) == gl.bufferData[drawers[d].buffers.position]

Whole(n) == [num |-> n, den |-> 1]

\* C6: numTriangles is a third of the length of the positions array of the
\* latest setMesh, 0 before any setMesh (9 floats give 3, none give 0); a
\* draw ends in one drawArrays call, from 0, over numTriangles vertices.
C6_TriangleCount ==
    /\ \A d \in Drawers :
         /\ LatestPositions(d) = -1 => drawers[d].numTriangles = Whole(0)
         /\ LatestPositions(d) >= 0 =>
              drawers[d].numTriangles.num * 3 = LatestPositions(d) * drawers[d].numTriangles.den
         /\ LatestPositions(d) = 9 => drawers[d].numTriangles = Whole(3)
         /\ LatestPositions(d) = 0 => drawers[d].numTriangles = Whole(0)
    /\ op.name = "setMesh" => LatestPositions(op.drawer) = op.arg
    /\ op.name = "draw" =>
         /\ CallsTo("drawArrays") = {Len(issued)}
         /\ Calls[Len(issued)].first = 0
         /\ Calls[Len(issued)].count = drawers[op.drawer].numTriangles
    /\ op.name # "draw" => CallsTo("drawArrays") = {}

C6_Witness ==
    /\ op.name = "draw"
    /\ LatestPositions(op.drawer) = 9
    /\ Calls[Len(issued)].count = Whole(3)
    /\ \E d \in Drawers : LatestPositions(d) = -1

FallbackParameters ==
    {<<"TEXTURE_MIN_FILTER", "LINEAR">>,
     <<"TEXTURE_WRAP_S", "CLAMP_TO_EDGE">>,
     <<"TEXTURE_WRAP_T", "CLAMP_TO_EDGE">>}

ParametersSet == {<<Calls[k].pname, Calls[k].param>> : k \in CallsTo("texParameteri")}

\* C7: setTexture(img) generates mipmaps and sets no texture parameter when
\* both sides of img are powers of two, and only then; otherwise it sets the
\* linear filter and the two edge clamps; either way it ends by binding the
\* drawer's texture on unit 0 and writing 0 to the sampler uniform.
C7_MipmapsOrFallback ==
    op.name = "setTexture" =>
        LET both == isPowerOf2(op.arg.width) /\ isPowerOf2(op.arg.height)
            md == drawers[op.drawer]
            n == Len(issued)
        IN  /\ (CallsTo("generateMipmap") # {}) <=> both
            /\ (ParametersSet = {}) <=> both
            /\ ~both => ParametersSet = FallbackParameters
            /\ n >= 3
            /\ Calls[n - 2] = [f |-> "activeTexture", unit |-> 0]
            /\ Calls[n - 1] = [f |-> "bindTexture", texture |-> md.texture]
            /\ Calls[n] = [f |-> "uniform1i", location |-> md.uniformLocations.tex,
                           value |-> 0]
            /\ \A k \in CallsTo("generateMipmap") \cup CallsTo("texParameteri") : k < n - 2
            /\ gl.activeTexture = 0
            /\ gl.texture2D[0] = md.texture
            /\ gl.sampler[md.prog] = 0

C7_Witness ==
    /\ op.name = "setTexture"
    /\ op.arg = [width |-> 256, height |-> 100]
    /\ ParametersSet = FallbackParameters

UniformWrites == CallsTo("uniformMatrix4fv") \cup CallsTo("uniform1i")

AttribOf(md, name, size) ==
    gl.attribs[md.attribLocations[name]] =
        [buffer |-> md.buffers[name], size |-> size, enabled |-> TRUE]

\* C10: when a drawer's draw reaches drawArrays, the current program, the
\* bound texture and the three attributes are that drawer's, with 3, 3 and 2
\* components; and every uniform write of draw and of setTexture goes to a
\* location of the program that is current when it is made.
C10_ContextIsTheDrawersOwn ==
    /\ op.name = "draw" =>
         LET md == drawers[op.drawer]
         IN  /\ gl.program = md.prog
             /\ gl.texture2D[gl.activeTexture] = md.texture
             /\ AttribOf(md, "position", 3)
             /\ AttribOf(md, "normal", 3)
             /\ AttribOf(md, "texCoord", 2)
    /\ \A k \in UniformWrites : Calls[k].location.program = issued[k].program

====
